---- MODULE Spec2Model ----
(***************************************************************************)
(* Tsodyks-Markram AMPA/NMDA synapse mechanisms of the week 4 notebooks:   *)
(*   StochasticTsodyksMarkram_AMPA_NMDA.mod  (two-state release site)      *)
(*   TsodyksMarkram_AMPA_NMDA.mod            (deterministic vesicle pool)  *)
(*                                                                         *)
(* Numbers.  The mechanisms compute with reals.  Here every real is an     *)
(* exact rational <<numerator, denominator>> in lowest terms.  Time is     *)
(* counted in ticks, and a time constant tau is given as its half life in  *)
(* ticks (tau*ln 2), so that exp(-x/tau) = 2^-(x/tau) is rational whenever *)
(* tau divides x; the integration step dt is a common multiple of all the  *)
(* half lives.  The time constants are RANGE parameters of the mechanisms; *)
(* the values below are instances for which the exponentials are exact.    *)
(***************************************************************************)
EXTENDS Integers, Sequences, FiniteSets, TLC

\* ------------------------------------------------------------ bounds
MaxSpikes == 3
MaxSteps == 2
MaxLines == 2
MaxInteger == 10
MaxAnswerLen == 2

\* ------------------------------------------------------------ rationals
RECURSIVE GCD(_, _)
GCD(a, b) == IF b = 0 THEN a ELSE GCD(b, a % b)

Abs(n) == IF n < 0 THEN -n ELSE n

Q(n, d) ==
    LET g == GCD(Abs(n), d)
    IN  IF n = 0 THEN <<0, 1>> ELSE <<n \div g, d \div g>>

Zero == <<0, 1>>
One == <<1, 1>>
\* Sums over the least common denominator and products reduced crosswise, so
\* that no intermediate value is larger than the result requires.
QAdd(x, y) ==
    LET g == GCD(x[2], y[2])
    IN  Q(x[1] * (y[2] \div g) + y[1] * (x[2] \div g), (x[2] \div g) * y[2])
QNeg(x) == <<-x[1], x[2]>>
QSub(x, y) == QAdd(x, QNeg(y))
QMul(x, y) ==
    IF x[1] = 0 \/ y[1] = 0 THEN <<0, 1>>
    ELSE LET g == GCD(Abs(x[1]), y[2])
             h == GCD(Abs(y[1]), x[2])
         IN  <<(x[1] \div g) * (y[1] \div h), (x[2] \div h) * (y[2] \div g)>>
QInv(x) == IF x[1] < 0 THEN Q(-x[2], -x[1]) ELSE Q(x[2], x[1])
QLt(x, y) == QSub(x, y)[1] < 0
QLe(x, y) == ~QLt(y, x)
QInt(n) == <<n, 1>>

RECURSIVE Pow2(_)
Pow2(n) == IF n = 0 THEN 1 ELSE 2 * Pow2(n - 1)

RECURSIVE Log2(_)
Log2(n) == IF n <= 1 THEN 0 ELSE 1 + Log2(n \div 2)

\* exp(-x/tau), tau a half life in ticks dividing x.
exp_neg(x, tau) == Q(1, Pow2(x \div tau))

\* ------------------------------------------------------------ parameters
\* PARAMETER block; half lives in ticks.
tau_r_AMPA == 1
tau_d_AMPA == 2
tau_r_NMDA == 1
tau_d_NMDA == 2

\* The values U1, tau_rec and tau_facil are set to by the notebooks' cells.
U1Values == {<<0, 1>>, <<1, 2>>, <<1, 1>>}
TauRecValues == {1, 2}
TauFacilValues == {2}

\* Fixed integration step: a common multiple of every half life.
dt == tau_d_NMDA

\* Release sites and the stimulators connected to them.  Every stimulator has
\* one NetCon onto every site; a NetCon carries its weight and its own tsyn.
Syn == {1, 2}
Stim == {1, 2}
weight(k) == k

\* Values Random.uniform(0,1) hands out.
Draws == {<<0, 1>>, <<1, 2>>, <<1, 1>>}

VARIABLES
    t,        \* simulated time, ticks
    nstep,    \* integration steps taken
    nspike,   \* spikes emitted by the stimulators
    active,   \* the stochastic instances the notebook has created
    par,      \* [U1, tau_rec, tau_facil] of every instance
    syn,      \* syn[s]: STATE and ASSIGNED R of stochastic instance s
    tsyn,     \* tsyn[s][k]: NET_RECEIVE argument tsyn of NetCon k -> s
    pending,  \* pending[s]: events at time t not yet delivered to s
    rngpos,   \* rngpos[r]: values picked so far from Random object r
    stream,   \* values of the seeded stream picked by some object, not yet by all
    last,     \* the most recent NET_RECEIVE execution (history)
    hist,     \* hist[s]: release history of instance s (history)
    tm,       \* STATE of the deterministic instance
    ens,      \* ensemble of stochastic instances: the distribution of (R, tsyn)
    lastTM,   \* the most recent event of the deterministic instance (history)
    lastEns,  \* expectations over the ensemble at its most recent event (history)
    nb,       \* the notebook cells that read synapses/mtype_map.tsv
    sub       \* the submission example of the README

vars == <<t, nstep, nspike, active, par, syn, tsyn, pending,
          rngpos, stream, last, hist,
          tm, ens, lastTM, lastEns, nb, sub>>

\* ------------------------------------------------------------ INITIAL
\* Time to peak of a dual-exponential profile, in ticks.
tp(tau_r, tau_d) == ((tau_r * tau_d) \div (tau_d - tau_r)) * Log2(tau_d \div tau_r)

\* Mutant of factor: no normalisation.
factor_one(tau_r, tau_d) == One

\* Normalisation factor of a dual-exponential profile.
factor(tau_r, tau_d) ==
    QInv(QAdd(QSub(Zero, exp_neg(tp(tau_r, tau_d), tau_r)),
              exp_neg(tp(tau_r, tau_d), tau_d)))

factor_AMPA == factor(tau_r_AMPA, tau_d_AMPA)
factor_NMDA == factor(tau_r_NMDA, tau_d_NMDA)

\* Mutant of INITIAL: Use starts at U1 instead of 0.
INITIAL_UseU1 ==
    [A_AMPA |-> Zero, B_AMPA |-> Zero, A_NMDA |-> Zero, B_NMDA |-> Zero,
     R |-> One, Use |-> par.U1]

\* INITIAL of both mechanisms: the conductance states zeroed, R = 1, Use = 0.
INITIAL ==
    [A_AMPA |-> Zero, B_AMPA |-> Zero, A_NMDA |-> Zero, B_NMDA |-> Zero,
     R |-> One, Use |-> Zero]

\* ------------------------------------------------------------ BREAKPOINT
\* PARAMETER gmax_AMPA, gmax_NMDA = .001 (uS).
gmax_AMPA == Q(1, 1000)
gmax_NMDA == Q(1, 1000)

\* g_AMPA = gmax_AMPA*(B_AMPA-A_AMPA)
g_AMPA(st) == QMul(gmax_AMPA, QSub(st.B_AMPA, st.A_AMPA))

\* g_NMDA = mggate*gmax_NMDA*(B_NMDA-A_NMDA)
g_NMDA(st, mggate) == QMul(QMul(mggate, gmax_NMDA), QSub(st.B_NMDA, st.A_NMDA))

\* dual_exp of the exercise notebook at one time x: the closed form of the
\* response to a single pulse at t_start.
dual_exp(x, tau_r, tau_d, t_start) ==
    LET time_to_peak == ((tau_r * tau_d) \div (tau_d - tau_r)) * Log2(tau_d \div tau_r)
        fac == QAdd(QNeg(exp_neg(time_to_peak, tau_r)), exp_neg(time_to_peak, tau_d))
        f_dual_exp(y) == QMul(QSub(exp_neg(y, tau_d), exp_neg(y, tau_r)), QInv(fac))
    IN  IF x >= t_start THEN f_dual_exp(x - t_start) ELSE Zero

\* ------------------------------------------------------------ DERIVATIVE odes
\* cnexp over one step: x' = -x/tau integrates to x*exp(-dt/tau).
Decay(x, tau) == QMul(x, exp_neg(dt, tau))

\* One step of the stochastic mechanism's odes: R is not integrated.
Sto_odes(st) ==
    [st EXCEPT !.A_AMPA = Decay(@, tau_r_AMPA),
               !.B_AMPA = Decay(@, tau_d_AMPA),
               !.A_NMDA = Decay(@, tau_r_NMDA),
               !.B_NMDA = Decay(@, tau_d_NMDA),
               !.Use = Decay(@, par.tau_facil)]

\* ------------------------------------------------------------ NET_RECEIVE
\* Mutant of Facilitate: U1 is added whatever Use is.
FacilitateUnsaturated(use) == QAdd(use, par.U1)

\* Update of the release probability, first statement of both NET_RECEIVEs.
Facilitate(use) == QAdd(use, QMul(par.U1, QSub(One, use)))

\* Survival probability of the unrecovered state.
Psurv(now, ts) == exp_neg(now - ts, par.tau_rec)

\* if (result>Psurv): the unrecovered site recovers.
Recovers(result, psurv) == QLt(psurv, result)

\* Mutant of Releases: result<=Use.
ReleasesOrEqual(result, use) == ~QLt(use, result)

\* if (result<Use): the recovered site releases.
Releases(result, use) == QLt(result, use)

\* Mutant of Release: R is left as it is.
ReleaseKeepsR(st, w) ==
    [st EXCEPT !.A_AMPA = QAdd(@, QMul(QInt(w), factor_AMPA)),
               !.B_AMPA = QAdd(@, QMul(QInt(w), factor_AMPA)),
               !.A_NMDA = QAdd(@, QMul(QInt(w), factor_NMDA)),
               !.B_NMDA = QAdd(@, QMul(QInt(w), factor_NMDA))]

\* Mutant of Release: the released fraction Use*R is taken from R and scales
\* the response, as in the deterministic mechanism.
ReleaseFraction(st, w) ==
    LET A == QMul(st.Use, st.R)
    IN  [st EXCEPT !.R = QSub(@, A),
                   !.A_AMPA = QAdd(@, QMul(QMul(A, QInt(w)), factor_AMPA)),
                   !.B_AMPA = QAdd(@, QMul(QMul(A, QInt(w)), factor_AMPA)),
                   !.A_NMDA = QAdd(@, QMul(QMul(A, QInt(w)), factor_NMDA)),
                   !.B_NMDA = QAdd(@, QMul(QMul(A, QInt(w)), factor_NMDA))]

\* Mutant of Release: the response is scaled by Use.
ReleaseScaled(st, w) ==
    [st EXCEPT !.R = Zero,
               !.A_AMPA = QAdd(@, QMul(QMul(st.Use, QInt(w)), factor_AMPA)),
               !.B_AMPA = QAdd(@, QMul(QMul(st.Use, QInt(w)), factor_AMPA)),
               !.A_NMDA = QAdd(@, QMul(QMul(st.Use, QInt(w)), factor_NMDA)),
               !.B_NMDA = QAdd(@, QMul(QMul(st.Use, QInt(w)), factor_NMDA))]

\* Body of the release branch: R and the four conductance states.
Release(st, w) ==
    [st EXCEPT !.R = Zero,
               !.A_AMPA = QAdd(@, QMul(QInt(w), factor_AMPA)),
               !.B_AMPA = QAdd(@, QMul(QInt(w), factor_AMPA)),
               !.A_NMDA = QAdd(@, QMul(QInt(w), factor_NMDA)),
               !.B_NMDA = QAdd(@, QMul(QInt(w), factor_NMDA))]

\* Mutant of RecoveryTsyn: tsyn is not reset.
RecoveryTsynKept(unrec, rec, now, ts) == ts

\* tsyn after the recovery block: reset when the site stays unrecovered.
RecoveryTsyn(unrec, rec, now, ts) == IF unrec /\ ~rec THEN now ELSE ts

\* Mutant of Sto_NET_RECEIVE: the release draw is taken at every event, also
\* when the site stays unrecovered.
Sto_NET_RECEIVE_DrawsBoth(st, w, ts, now, u) ==
    LET st1 == [st EXCEPT !.Use = Facilitate(st.Use)]
        unrec == st.R = Zero
        rec == unrec /\ Recovers(u[1], Psurv(now, ts))
        st2 == IF rec THEN [st1 EXCEPT !.R = One] ELSE st1
        ts2 == RecoveryTsyn(unrec, rec, now, ts)
        n1 == IF unrec THEN 1 ELSE 0
        decide == st2.R = One
        rel == decide /\ Releases(u[n1 + 1], st2.Use)
    IN  [st |-> IF rel THEN Release(st2, w) ELSE st2,
         tsyn |-> IF rel THEN now ELSE ts2,
         ndraws |-> n1 + 1,
         Rdec |-> st2.R, recovered |-> rec, released |-> rel]

\* NET_RECEIVE of the stochastic mechanism at time now on a NetCon of weight w
\* and argument ts; u[1], u[2] are the next two values urand() would return.
\* Yields the new state, the NetCon's new tsyn, the number of values picked
\* and which branches ran.
Sto_NET_RECEIVE(st, w, ts, now, u) ==
    LET st1 == [st EXCEPT !.Use = Facilitate(st.Use)]
        unrec == st.R = Zero
        rec == unrec /\ Recovers(u[1], Psurv(now, ts))
        st2 == IF rec THEN [st1 EXCEPT !.R = One] ELSE st1
        ts2 == RecoveryTsyn(unrec, rec, now, ts)
        n1 == IF unrec THEN 1 ELSE 0
        decide == st2.R = One
        rel == decide /\ Releases(u[n1 + 1], st2.Use)
    IN  [st |-> IF rel THEN Release(st2, w) ELSE st2,
         tsyn |-> IF rel THEN now ELSE ts2,
         ndraws |-> IF decide THEN n1 + 1 ELSE n1,
         Rdec |-> st2.R,
         recovered |-> rec,
         released |-> rel]

\* ------------------------------------------------------------ urand
\* Mutant of RngOf: every instance picks from one object, as with the
\* scop_random fallback of urand.
RngShared(s) == 1

\* The Random object instance s picks from: setRNG gives each its own.
RngOf(s) == s

\* Minimum of a non-empty set of numbers.
Min(S) == CHOOSE x \in S : \A y \in S : x <= y

\* Every Random object is seeded alike (Random123(1)) and so hands out the same
\* sequence.  Of that sequence the model keeps the values between the slowest
\* object's position and the fastest's: StreamBase is the slowest position.
StreamBase(pos) == Min({pos[RngOf(s)] : s \in active})

\* ------------------------------------------------------------ actions
NoEvent == [kind |-> "none", cons |-> {}]

NoHist == [rel |-> <<>>, lastRel |-> -1, recSince |-> FALSE, cons |-> {}]

\* One configuration of a release site: R and the tsyn of each of its NetCons.
Cfg(r, ts) == [R |-> r, tsyn |-> ts]

\* The ensemble after INITIAL: every member recovered, every tsyn = t = 0.
EnsINITIAL ==
    [dist |-> (Cfg(One, [k \in Stim |-> 0]) :> One),
     Use |-> Zero, A_AMPA |-> Zero, B_AMPA |-> Zero, A_NMDA |-> Zero, B_NMDA |-> Zero]

\* State after finitialize() with the stochastic instances of `created`, one
\* deterministic instance and the ensemble.
Initialised(created) ==
    /\ t = 0
    /\ nstep = 0
    /\ nspike = 0
    /\ active = created
    /\ par \in [U1 : U1Values, tau_rec : TauRecValues, tau_facil : TauFacilValues]
    /\ syn = [s \in Syn |-> INITIAL]
    /\ tsyn = [s \in Syn |-> [k \in Stim |-> 0]]
    /\ pending = [s \in Syn |-> <<>>]
    /\ rngpos = [r \in Syn |-> 0]
    /\ stream = <<>>
    /\ last = NoEvent
    /\ hist = [s \in Syn |-> NoHist]
    /\ tm = INITIAL
    /\ ens = EnsINITIAL
    /\ lastTM = NoEvent
    /\ lastEns = NoEvent

\* A Python program that has not been run.
NotRun == [pc |-> "not run"]

\* One instance, as in the tutorial notebooks.
Init == Initialised({1}) /\ nb = NotRun /\ sub = NotRun

\* Stimulator k spikes: one event for every instance, through its NetCon.  The
\* event queue hands the events of one spike to their targets (in any order)
\* before the next spike is taken from it.
Spike(k) ==
    /\ nspike < MaxSpikes
    /\ \A s \in Syn : pending[s] = <<>>
    /\ nspike' = nspike + 1
    /\ pending' = [s \in Syn |-> IF s \in active THEN Append(pending[s], k)
                                                 ELSE pending[s]]
    /\ UNCHANGED <<t, nstep, active, par, syn, tsyn, rngpos, stream, last, hist,
                   tm, ens, lastTM, lastEns,
                   nb, sub>>

\* The oldest pending event of instance s is delivered: NET_RECEIVE runs.
Deliver(s) ==
    /\ pending[s] # <<>>
    /\ LET k == Head(pending[s])
           r == RngOf(s)
           p == rngpos[r] - StreamBase(rngpos)
           have == Len(stream) - p
       IN  \E u1, u2 \in Draws :
             LET u == <<u1, u2>>
                 out == Sto_NET_RECEIVE(syn[s], weight(k), tsyn[s][k], t, u)
                 n == out.ndraws
             IN  /\ \A i \in 1..2 : i <= have => u[i] = stream[p + i]
                 /\ \A i \in 1..2 : (i > have /\ i > n) => u[i] = Zero
                 /\ syn' = [syn EXCEPT ![s] = out.st]
                 /\ tsyn' = [tsyn EXCEPT ![s][k] = out.tsyn]
                 /\ rngpos' = [rngpos EXCEPT ![r] = @ + n]
                 /\ stream' = LET all == IF n > have
                                            THEN stream \o SubSeq(u, have + 1, n)
                                            ELSE stream
                                  drop == StreamBase(rngpos') - StreamBase(rngpos)
                              IN  SubSeq(all, drop + 1, Len(all))
                 /\ last' = [kind |-> "event", s |-> s, k |-> k, time |-> t,
                             pre |-> syn[s], tsyn0 |-> tsyn[s][k],
                             post |-> out.st, tsyn1 |-> out.tsyn,
                             u |-> SubSeq(u, 1, n),
                             pos0 |-> rngpos[r],
                             Rdec |-> out.Rdec,
                             recovered |-> out.recovered,
                             released |-> out.released,
                             prevRel |-> hist[s].lastRel,
                             recSince |-> hist[s].recSince \/ out.recovered,
                             cons |-> hist[s].cons \cup {k}]
                 /\ hist' = [hist EXCEPT ![s] =
                               [rel |-> Append(@.rel, out.released),
                                lastRel |-> IF out.released THEN t ELSE @.lastRel,
                                recSince |-> IF out.released THEN FALSE
                                             ELSE @.recSince \/ out.recovered,
                                cons |-> @.cons \cup {k}]]
    /\ pending' = [pending EXCEPT ![s] = Tail(@)]
    /\ UNCHANGED <<t, nstep, nspike, active, par, tm, ens, lastTM, lastEns,
                   nb, sub>>

\* One fixed step of the integrator, taken once every event of the current
\* time has been delivered.
Advance ==
    /\ nstep < MaxSteps
    /\ \A s \in Syn : pending[s] = <<>>
    /\ t' = t + dt
    /\ nstep' = nstep + 1
    /\ syn' = [s \in Syn |-> Sto_odes(syn[s])]
    /\ UNCHANGED <<nspike, active, par, tsyn, pending, rngpos, stream, last, hist,
                   tm, ens, lastTM, lastEns,
                   nb, sub>>

Next ==
    \/ \E k \in Stim : Spike(k)
    \/ \E s \in Syn : Deliver(s)
    \/ Advance

Spec == Init /\ [][Next]_vars

\* Two instances with the same parameters, stimulators and seed, as created by
\* the graded exercise's loop over num_synapses, with the U1 it gives them.
InitPair == Initialised(Syn) /\ par.U1 = <<1, 2>> /\ nb = NotRun /\ sub = NotRun

SpecPair == InitPair /\ [][Next]_vars

\* ------------------------------------------------------------ deterministic mechanism
\* One step of the deterministic mechanism's odes: R' = (1-R)/tau_rec relaxes
\* R towards 1, the other five states decay.
TM_odes(st) ==
    [st EXCEPT !.A_AMPA = Decay(@, tau_r_AMPA),
               !.B_AMPA = Decay(@, tau_d_AMPA),
               !.A_NMDA = Decay(@, tau_r_NMDA),
               !.B_NMDA = Decay(@, tau_d_NMDA),
               !.R = QSub(One, QMul(QSub(One, @), exp_neg(dt, par.tau_rec))),
               !.Use = Decay(@, par.tau_facil)]

\* Mutant of Released: the fraction Use of the whole pool.
ReleasedOfAll(st1) == st1.Use

\* The released fraction A = Use*R, computed after Use has been updated.
Released(st1) == QMul(st1.Use, st1.R)

\* Mutant of TM_NET_RECEIVE: A is computed before Use is raised.
TM_NET_RECEIVE_StaleUse(st, w) ==
    LET A == Released(st)
    IN  [st EXCEPT !.Use = Facilitate(@),
                   !.R = QSub(@, A),
                   !.A_AMPA = QAdd(@, QMul(QMul(A, QInt(w)), factor_AMPA)),
                   !.B_AMPA = QAdd(@, QMul(QMul(A, QInt(w)), factor_AMPA)),
                   !.A_NMDA = QAdd(@, QMul(QMul(A, QInt(w)), factor_NMDA)),
                   !.B_NMDA = QAdd(@, QMul(QMul(A, QInt(w)), factor_NMDA))]

\* NET_RECEIVE of the deterministic mechanism on a NetCon of weight w.
TM_NET_RECEIVE(st, w) ==
    LET st1 == [st EXCEPT !.Use = Facilitate(st.Use)]
        A == Released(st1)
    IN  [st1 EXCEPT !.R = QSub(@, A),
                    !.A_AMPA = QAdd(@, QMul(QMul(A, QInt(w)), factor_AMPA)),
                    !.B_AMPA = QAdd(@, QMul(QMul(A, QInt(w)), factor_AMPA)),
                    !.A_NMDA = QAdd(@, QMul(QMul(A, QInt(w)), factor_NMDA)),
                    !.B_NMDA = QAdd(@, QMul(QMul(A, QInt(w)), factor_NMDA))]

\* ------------------------------------------------------------ ensemble
\* Probability that a value of Random.uniform(0,1) passes result>Psurv.
PRecover(psurv) == QSub(One, psurv)

\* Probability that a value of Random.uniform(0,1) passes result<Use.
PRelease(use) == use

\* The ways NET_RECEIVE can run from configuration c on NetCon k at time now,
\* each with values of urand() that take it there and with its probability.
Branches(c, use1, k, now) ==
    IF c.R = Zero
      THEN LET ps == Psurv(now, c.tsyn[k])
           IN  {[u |-> <<Zero, Zero>>, p |-> QSub(One, PRecover(ps))],
                [u |-> <<One, Zero>>, p |-> QMul(PRecover(ps), PRelease(use1))],
                [u |-> <<One, One>>,
                 p |-> QMul(PRecover(ps), QSub(One, PRelease(use1)))]}
      ELSE {[u |-> <<Zero, Zero>>, p |-> PRelease(use1)],
            [u |-> <<One, One>>, p |-> QSub(One, PRelease(use1))]}

\* An element of a non-empty set; of a singleton, its element.  A value is
\* bound through a singleton where it is used more than once, so that it is
\* computed once.
The(S) == CHOOSE x \in S : TRUE

\* Sum of f[x] over the finite set S.
RECURSIVE SumQ(_, _)
SumQ(f, S) ==
    IF S = {} THEN Zero
    ELSE The({QAdd(f[x], SumQ(f, S \ {x})) : x \in {The(S)}})

\* The runs of NET_RECEIVE over the ensemble e: one per configuration and branch
\* of positive probability, with the state it leaves.
EnsRuns(e, k, now) ==
    LET use1 == Facilitate(e.Use)
        from(c) == [INITIAL EXCEPT !.R = c.R, !.Use = e.Use]
        run(c, b) ==
            LET out == Sto_NET_RECEIVE(from(c), weight(k), c.tsyn[k], now, b.u)
            IN  [c |-> c, u |-> b.u, p |-> QMul(e.dist[c], b.p),
                 to |-> Cfg(out.st.R, [c.tsyn EXCEPT ![k] = out.tsyn]),
                 Rdec |-> out.Rdec,
                 incA |-> out.st.A_AMPA, incN |-> out.st.A_NMDA]
        all == UNION {{run(c, b) : b \in Branches(c, use1, k, now)} :
                        c \in DOMAIN e.dist}
    IN  {r \in all : r.p # Zero}

\* Expectation of field g over the runs.
Expect(runs, g(_)) ==
    The({SumQ(f, runs) : f \in {[r \in runs |-> QMul(r.p, g(r))]}})

\* The ensemble after an event on NetCon k at time now.
Ens_NET_RECEIVE(e, k, now) ==
    LET incA(r) == r.incA
        incN(r) == r.incN
        after(runs, prob) ==
            [dist |-> [c \in {r.to : r \in runs} |->
                         SumQ(prob, {r \in runs : r.to = c})],
             Use |-> Facilitate(e.Use),
             A_AMPA |-> QAdd(e.A_AMPA, Expect(runs, incA)),
             B_AMPA |-> QAdd(e.B_AMPA, Expect(runs, incA)),
             A_NMDA |-> QAdd(e.A_NMDA, Expect(runs, incN)),
             B_NMDA |-> QAdd(e.B_NMDA, Expect(runs, incN))]
    IN  The({after(runs, [r \in runs |-> r.p]) : runs \in {EnsRuns(e, k, now)}})

\* One integration step of every member: the conductance states and Use decay.
Ens_odes(e) ==
    [e EXCEPT !.A_AMPA = Decay(@, tau_r_AMPA),
              !.B_AMPA = Decay(@, tau_d_AMPA),
              !.A_NMDA = Decay(@, tau_r_NMDA),
              !.B_NMDA = Decay(@, tau_d_NMDA),
              !.Use = Decay(@, par.tau_facil)]

\* Expected R of the ensemble.
EnsR(e) == SumQ([c \in DOMAIN e.dist |-> QMul(e.dist[c], c.R)], DOMAIN e.dist)

\* Stimulator k spikes onto the deterministic instance, through a NetCon of
\* weight(k).
TMEvent(k) ==
    /\ nspike < MaxSpikes
    /\ nspike' = nspike + 1
    /\ tm' = TM_NET_RECEIVE(tm, weight(k))
    /\ lastTM' = [kind |-> "event", k |-> k, time |-> t, n |-> nspike + 1,
                  cons |-> lastTM.cons \cup {k}, pre |-> tm, post |-> tm']
    /\ UNCHANGED <<t, nstep, active, par, syn, tsyn, pending, rngpos, stream,
                   last, hist, ens, lastEns,
                   nb, sub>>

\* One fixed step of the integrator.
TMAdvance ==
    /\ nstep < MaxSteps
    /\ t' = t + dt
    /\ nstep' = nstep + 1
    /\ tm' = TM_odes(tm)
    /\ UNCHANGED <<nspike, active, par, syn, tsyn, pending, rngpos, stream,
                   last, hist, ens, lastTM, lastEns,
                   nb, sub>>

NextTM ==
    \/ \E k \in Stim : TMEvent(k)
    \/ TMAdvance

InitTM == Initialised({}) /\ nb = NotRun /\ sub = NotRun

SpecTM == InitTM /\ [][NextTM]_vars

\* ------------------------------------------------------------ both mechanisms
\* Stimulator k spikes onto the deterministic instance and onto every member
\* of an ensemble of stochastic instances, each through a NetCon of weight(k).
EnsEvent(k) ==
    /\ nspike < MaxSpikes
    /\ nspike' = nspike + 1
    /\ tm' = TM_NET_RECEIVE(tm, weight(k))
    /\ lastTM' = [kind |-> "event", k |-> k, time |-> t, n |-> nspike + 1,
                  cons |-> lastTM.cons \cup {k}, pre |-> tm, post |-> tm']
    /\ ens' = Ens_NET_RECEIVE(ens, k, t)
    /\ \E runs \in {EnsRuns(ens, k, t)} :
         lastEns' = LET rdec(r) == r.Rdec
                        incA(r) == r.incA
                        incN(r) == r.incN
                    IN  [kind |-> "event",
                         Rdec |-> Expect(runs, rdec),
                         incA |-> Expect(runs, incA),
                         incN |-> Expect(runs, incN)]
    /\ UNCHANGED <<t, nstep, active, par, syn, tsyn, pending, rngpos, stream,
                   last, hist,
                   nb, sub>>

\* One fixed step of the integrator, for the deterministic instance and the
\* ensemble.
EnsAdvance ==
    /\ nstep < MaxSteps
    /\ t' = t + dt
    /\ nstep' = nstep + 1
    /\ tm' = TM_odes(tm)
    /\ ens' = Ens_odes(ens)
    /\ UNCHANGED <<nspike, active, par, syn, tsyn, pending, rngpos, stream,
                   last, hist, lastTM, lastEns,
                   nb, sub>>

NextEns ==
    \/ \E k \in Stim : EnsEvent(k)
    \/ EnsAdvance

SpecEns == InitTM /\ [][NextEns]_vars

\* ------------------------------------------------------------ one instance of each mechanism
\* Stimulator k spikes onto stochastic instance 1 and onto the deterministic
\* instance, each through a NetCon of weight(k): both NET_RECEIVEs run.  The
\* instance's Random object is the only one in use, so every value it hands
\* out is new.
BothEvent(k) ==
    /\ nspike < MaxSpikes
    /\ nspike' = nspike + 1
    /\ \E u1, u2 \in Draws :
         LET u == <<u1, u2>>
             out == Sto_NET_RECEIVE(syn[1], weight(k), tsyn[1][k], t, u)
             n == out.ndraws
         IN  /\ n < 2 => u2 = Zero
             /\ syn' = [syn EXCEPT ![1] = out.st]
             /\ tsyn' = [tsyn EXCEPT ![1][k] = out.tsyn]
             /\ rngpos' = [rngpos EXCEPT ![RngOf(1)] = @ + n]
             /\ last' = [kind |-> "event", s |-> 1, k |-> k, time |-> t,
                         pre |-> syn[1], tsyn0 |-> tsyn[1][k],
                         post |-> out.st, tsyn1 |-> out.tsyn,
                         u |-> SubSeq(u, 1, n), pos0 |-> rngpos[RngOf(1)],
                         Rdec |-> out.Rdec, recovered |-> out.recovered,
                         released |-> out.released]
    /\ tm' = TM_NET_RECEIVE(tm, weight(k))
    /\ lastTM' = [kind |-> "event", k |-> k, time |-> t, n |-> nspike + 1,
                  cons |-> lastTM.cons \cup {k}, pre |-> tm, post |-> tm']
    /\ UNCHANGED <<t, nstep, active, par, pending, stream, hist, ens, lastEns,
                   nb, sub>>

\* One fixed step of the integrator, for both instances.
BothAdvance ==
    /\ nstep < MaxSteps
    /\ t' = t + dt
    /\ nstep' = nstep + 1
    /\ syn' = [s \in Syn |-> Sto_odes(syn[s])]
    /\ tm' = TM_odes(tm)
    /\ UNCHANGED <<nspike, active, par, tsyn, pending, rngpos, stream, last, hist,
                   ens, lastTM, lastEns, nb, sub>>

NextBoth ==
    \/ \E k \in Stim : BothEvent(k)
    \/ BothAdvance

SpecBoth == Init /\ [][NextBoth]_vars

\* ------------------------------------------------------------ mtype_map
\* A str is a sequence of one-character strings.
DigitChars == <<"0", "1", "2", "3", "4", "5", "6", "7", "8", "9">>

\* Characters str.split() without arguments splits at.
Whitespace == {" ", "\t", "\n", "\r"}

\* The decimal numeral of n >= 0.
RECURSIVE Numeral(_)
Numeral(n) ==
    IF n < 10 THEN <<DigitChars[n + 1]>>
    ELSE Numeral(n \div 10) \o <<DigitChars[(n % 10) + 1]>>

\* m-type names of the microcircuit.
Mtypes == {<<"L", "1", "_", "D", "A", "C">>,
           <<"L", "2", "3", "_", "P", "C">>,
           <<"L", "4", "_", "S", "S">>}

\* The records a map file holds: distinct m-types, each with its integer.
MapRecords ==
    UNION {{r \in [1..n -> [n : 0..MaxInteger, mtype : Mtypes]] :
              \A i, j \in 1..n : r[i].mtype = r[j].mtype => i = j} :
           n \in 0..MaxLines}

\* The text of a tab-separated file of the records: "integer<TAB>m-type", the
\* lines separated by "\n", with `newlines` line ends after the last line.
RECURSIVE TsvFile(_, _)
TsvFile(records, newlines) ==
    IF records = <<>>
    THEN [i \in 1..newlines |-> "\n"]
    ELSE Numeral(Head(records).n) \o <<"\t">> \o Head(records).mtype
         \o (IF Len(records) > 1 THEN <<"\n">> ELSE <<>>)
         \o TsvFile(Tail(records), newlines)

\* str.split(sep) for a one-character sep: the pieces between the separators,
\* empty pieces included; always at least one piece.
RECURSIVE str_split(_, _)
str_split(s, sep) ==
    IF \A i \in 1..Len(s) : s[i] # sep THEN <<s>>
    ELSE LET i == CHOOSE j \in 1..Len(s) :
                    s[j] = sep /\ \A k \in 1..(j - 1) : s[k] # sep
         IN  <<SubSeq(s, 1, i - 1)>> \o str_split(SubSeq(s, i + 1, Len(s)), sep)

\* str.split(): the maximal runs of characters that are not whitespace.
RECURSIVE str_split_ws(_)
str_split_ws(s) ==
    IF s = <<>> THEN <<>>
    ELSE IF Head(s) \in Whitespace THEN str_split_ws(Tail(s))
    ELSE LET ends == {j \in 1..Len(s) : j = Len(s) \/ s[j + 1] \in Whitespace}
             e == CHOOSE j \in ends : \A k \in ends : j <= k
         IN  <<SubSeq(s, 1, e)>> \o str_split_ws(SubSeq(s, e + 1, Len(s)))

\* Whether int(s) returns rather than raising ValueError, for s without sign,
\* underscore or whitespace.
IsNumeral(s) ==
    /\ s # <<>>
    /\ \A i \in 1..Len(s) : \E d \in 1..10 : DigitChars[d] = s[i]

\* int(s) of a decimal numeral.
RECURSIVE int(_)
int(s) ==
    IF s = <<>> THEN 0
    ELSE LET d == CHOOSE k \in 1..10 : DigitChars[k] = s[Len(s)]
         IN  10 * int(SubSeq(s, 1, Len(s) - 1)) + (d - 1)

\* list[:-1].
AllButLast(list) == SubSeq(list, 1, Len(list) - 1)

\* The notebook before its cells run: synapses/mtype_map.tsv is on disk.
InitMtype ==
    /\ Initialised({})
    /\ par = [U1 |-> One, tau_rec |-> 1, tau_facil |-> 2]
    /\ sub = NotRun
    /\ \E records \in MapRecords, newlines \in 0..2 :
         /\ records = <<>> => newlines = 0
         /\ nb = [pc |-> "open", records |-> records,
                  file |-> TsvFile(records, newlines),
                  mtype_map_content |-> <<>>, lines |-> <<>>, mtype_map |-> <<>>]

\* with open(...) as mtype_map_file: mtype_map_content = mtype_map_file.read()
ReadMtypeMap ==
    /\ nb.pc = "open"
    /\ nb' = [nb EXCEPT !.pc = "read", !.mtype_map_content = nb.file]
    /\ UNCHANGED <<t, nstep, nspike, active, par, syn, tsyn, pending, rngpos,
                   stream, last, hist, tm, ens, lastTM, lastEns, sub>>

\* mtype_map = {}; the for statement evaluates the list it iterates over.
ForLines ==
    /\ nb.pc = "read"
    /\ nb' = [nb EXCEPT !.pc = "for", !.mtype_map = <<>>,
                        !.lines = AllButLast(str_split(nb.mtype_map_content, "\n"))]
    /\ UNCHANGED <<t, nstep, nspike, active, par, syn, tsyn, pending, rngpos,
                   stream, last, hist, tm, ens, lastTM, lastEns, sub>>

\* One iteration of the loop: n, mtype = line.split(); mtype_map[mtype] = int(n).
\* Unpacking anything but two fields raises ValueError, and so does int() of a
\* field that is no numeral.
ForLineBody ==
    /\ nb.pc = "for"
    /\ nb.lines # <<>>
    /\ LET fields == str_split_ws(Head(nb.lines))
       IN  IF Len(fields) # 2 \/ ~IsNumeral(fields[1])
           THEN nb' = [nb EXCEPT !.pc = "ValueError"]
           ELSE nb' = [nb EXCEPT !.lines = Tail(@),
                                 !.mtype_map = (fields[2] :> int(fields[1])) @@ @]
    /\ UNCHANGED <<t, nstep, nspike, active, par, syn, tsyn, pending, rngpos,
                   stream, last, hist, tm, ens, lastTM, lastEns, sub>>

\* The list is exhausted: the cell is done.
ForLinesEnd ==
    /\ nb.pc = "for"
    /\ nb.lines = <<>>
    /\ nb' = [nb EXCEPT !.pc = "done"]
    /\ UNCHANGED <<t, nstep, nspike, active, par, syn, tsyn, pending, rngpos,
                   stream, last, hist, tm, ens, lastTM, lastEns, sub>>

NextMtype ==
    \/ ReadMtypeMap
    \/ ForLines
    \/ ForLineBody
    \/ ForLinesEnd

SpecMtype == InitMtype /\ [][NextMtype]_vars

\* ------------------------------------------------------------ submission example
\* The values the user puts for ANSWERS: a str of at most MaxAnswerLen
\* characters or a list of as many integers.
AnswerChars == {"a", "\"", "\\"}

AnswerInts == {0, 7, 12}

PyStr(s) == [type |-> "str", s |-> s, l |-> <<>>]

PyList(l) == [type |-> "list", s |-> <<>>, l |-> l]

AnswerValues ==
    UNION {{PyStr(s) : s \in [1..n -> AnswerChars]} \cup
           {PyList(l) : l \in [1..n -> AnswerInts]} : n \in 0..MaxAnswerLen}

SubmissionKeys == {<<"k", "1">>, <<"k", "2">>}

ENDPOINT == "https://bbp.epfl.ch/edx-grader/answer"

\* json.dumps of a str: quotes around it, '"' and '\' escaped with '\'.
RECURSIVE JsonEscape(_)
JsonEscape(s) ==
    IF s = <<>> THEN <<>>
    ELSE (IF Head(s) \in {"\"", "\\"} THEN <<"\\", Head(s)>> ELSE <<Head(s)>>)
         \o JsonEscape(Tail(s))

\* json.dumps of a list of integers: "[1, 12]".
RECURSIVE JsonItems(_)
JsonItems(l) ==
    IF l = <<>> THEN <<>>
    ELSE Numeral(Head(l)) \o (IF Len(l) > 1 THEN <<",", " ">> ELSE <<>>)
         \o JsonItems(Tail(l))

json_dumps(v) ==
    IF v.type = "str" THEN <<"\"">> \o JsonEscape(v.s) \o <<"\"">>
    ELSE <<"[">> \o JsonItems(v.l) \o <<"]">>

\* The reading of a JSON text by its receiver: the inverse of json_dumps.
RECURSIVE JsonUnescape(_)
JsonUnescape(s) ==
    IF s = <<>> THEN <<>>
    ELSE IF Head(s) = "\\" /\ Len(s) > 1
         THEN <<s[2]>> \o JsonUnescape(SubSeq(s, 3, Len(s)))
         ELSE <<Head(s)>> \o JsonUnescape(Tail(s))

json_loads(s) ==
    LET inner == SubSeq(s, 2, Len(s) - 1)
    IN  IF Len(s) >= 2 /\ s[1] = "\"" /\ s[Len(s)] = "\""
        THEN PyStr(JsonUnescape(inner))
        ELSE IF Len(s) >= 2 /\ s[1] = "[" /\ s[Len(s)] = "]"
        THEN LET items == IF inner = <<>> THEN <<>> ELSE str_split(inner, ",")
             IN  PyList([i \in 1..Len(items) |-> int(str_split_ws(items[i])[1])])
        ELSE [type |-> "invalid", s |-> s, l |-> <<>>]

\* Mutant of Data: the answers are put in as they are.
DataUnserialised(key, answers) ==
    [submission_token |-> key, answer |-> IF answers.type = "str" THEN answers.s
                                          ELSE JsonItems(answers.l)]

\* data = {'submission_token': SUBMISSION_KEY, 'answer': json.dumps(ANSWERS)}
Data(key, answers) ==
    [submission_token |-> key, answer |-> json_dumps(answers)]

\* requests.codes.ok
codes_ok == 200

\* What the grading endpoint answers: {grade: {value}} with status OK,
\* {message} with any other status.
Responses ==
    {[bound |-> TRUE, status_code |-> codes_ok, body |-> [grade |-> [value |-> g]]] :
        g \in {"0", "10"}}
    \cup
    {[bound |-> TRUE, status_code |-> c, body |-> [message |-> m]] :
        c \in {400, 403, 500}, m \in {"Invalid token", "Internal error"}}

\* The name `response` before anything is assigned to it.
Unbound == [bound |-> FALSE]

\* Exceptions requests.post can raise, with the classes each derives from:
\* the network exceptions are IOErrors, an invalid URL or proxy setting is
\* also a ValueError.
Bases ==
    [c \in {"ConnectionError", "Timeout", "InvalidProxyURL", "InvalidURL",
            "RequestException", "IOError", "ValueError", "NameError",
            "KeyError", "Exception"} |->
       CASE c \in {"ConnectionError", "Timeout"} -> {"RequestException"}
         [] c = "InvalidProxyURL" -> {"InvalidURL"}
         [] c = "InvalidURL" -> {"RequestException", "ValueError"}
         [] c = "RequestException" -> {"IOError"}
         [] c = "Exception" -> {}
         [] OTHER -> {"Exception"}]

RECURSIVE IsSubclass(_, _)
IsSubclass(c, d) == c = d \/ \E b \in Bases[c] : IsSubclass(b, d)

NetworkExceptions == {"ConnectionError", "Timeout"}

PostExceptions == NetworkExceptions \cup {"InvalidProxyURL"}

\* The class the handler around the request names: except ValueError.
Handled == "ValueError"

\* The script before its first statement.
InitSubmit ==
    /\ Initialised({})
    /\ par = [U1 |-> One, tau_rec |-> 1, tau_facil |-> 2]
    /\ nb = NotRun
    /\ \E key \in SubmissionKeys, answers \in AnswerValues :
         sub = [pc |-> "data", SUBMISSION_KEY |-> key, ANSWERS |-> answers,
                data |-> <<>>, request |-> <<>>, response |-> Unbound,
                raised |-> "none", exc |-> "none", read |-> FALSE,
                printed |-> <<>>]

\* data = {...}
BuildData ==
    /\ sub.pc = "data"
    /\ sub' = [sub EXCEPT !.pc = "try",
                          !.data = Data(sub.SUBMISSION_KEY, sub.ANSWERS)]
    /\ UNCHANGED <<t, nstep, nspike, active, par, syn, tsyn, pending, rngpos,
                   stream, last, hist, tm, ens, lastTM, lastEns, nb>>

\* response = requests.post(ENDPOINT, json=data, verify=False) returns.
PostReturns ==
    /\ sub.pc = "try"
    /\ \E r \in Responses :
         sub' = [sub EXCEPT !.pc = "if", !.response = r,
                            !.request = [method |-> "POST", url |-> ENDPOINT,
                                         json |-> sub.data]]
    /\ UNCHANGED <<t, nstep, nspike, active, par, syn, tsyn, pending, rngpos,
                   stream, last, hist, tm, ens, lastTM, lastEns, nb>>

\* requests.post raises: nothing is assigned to response.  The handler takes
\* the exception when its class derives from the class it names; any other
\* exception leaves the script.
PostRaises ==
    /\ sub.pc = "try"
    /\ \E e \in PostExceptions :
         sub' = [sub EXCEPT !.raised = e,
                            !.pc = IF IsSubclass(e, Handled) THEN "except"
                                   ELSE "raised",
                            !.exc = IF IsSubclass(e, Handled) THEN "none" ELSE e]
    /\ UNCHANGED <<t, nstep, nspike, active, par, syn, tsyn, pending, rngpos,
                   stream, last, hist, tm, ens, lastTM, lastEns, nb>>

\* except ValueError: print('Error sending the answers'); the statement after
\* the try statement is next.
Except ==
    /\ sub.pc = "except"
    /\ sub' = [sub EXCEPT !.pc = "if",
                          !.printed = Append(@, <<"Error sending the answers">>)]
    /\ UNCHANGED <<t, nstep, nspike, active, par, syn, tsyn, pending, rngpos,
                   stream, last, hist, tm, ens, lastTM, lastEns, nb>>

\* response.status_code == requests.codes.ok
StatusOk(response) == response.status_code = codes_ok

\* if response.status_code == requests.codes.ok: ... else: ...  Evaluating
\* the name response while nothing is bound to it raises NameError; a missing
\* key raises KeyError.
IfStatus ==
    /\ sub.pc = "if"
    /\ IF ~sub.response.bound
       THEN sub' = [sub EXCEPT !.pc = "raised", !.exc = "NameError", !.read = TRUE]
       ELSE LET body == sub.response.body
                key == IF StatusOk(sub.response) THEN "grade" ELSE "message"
            IN  IF key \notin DOMAIN body
                THEN sub' = [sub EXCEPT !.pc = "raised", !.exc = "KeyError",
                                        !.read = TRUE]
                ELSE IF StatusOk(sub.response)
                THEN sub' = [sub EXCEPT
                               !.pc = "end", !.read = TRUE,
                               !.printed = @ \o
                                 << <<"Your answer was submitted successfully!">>,
                                    <<"GRADE: {}", body.grade.value>> >>]
                ELSE sub' = [sub EXCEPT
                               !.pc = "end", !.read = TRUE,
                               !.printed = Append(@, <<body.message>>)]
    /\ UNCHANGED <<t, nstep, nspike, active, par, syn, tsyn, pending, rngpos,
                   stream, last, hist, tm, ens, lastTM, lastEns, nb>>

NextSubmit ==
    \/ BuildData
    \/ PostReturns
    \/ PostRaises
    \/ Except
    \/ IfStatus

SpecSubmit == InitSubmit /\ [][NextSubmit]_vars

\* ============================================================ properties
\* The draw the release test of the last event compared with Use: the last
\* value the event picked.
ReleaseDraw == last.u[Len(last.u)]

\* C1: a presynaptic event releases exactly when R = 1 at the release decision
\* and the value drawn there is strictly below Use; every release leaves R = 0.
C1_ReleaseRule ==
    last.kind = "event" =>
        /\ last.released <=> (last.Rdec = One /\ QLt(ReleaseDraw, last.post.Use))
        /\ last.released => last.post.R = Zero

\* An event that arrived unrecovered, recovered and released.
C1_Witness ==
    /\ last.kind = "event"
    /\ last.pre.R = Zero
    /\ last.released
    /\ last.post.Use # One

\* C2: an event that arrives at a recovered site and whose release draw is not
\* below Use leaves R = 1.
C2_NoConsumptionOnFailure ==
    (last.kind = "event" /\ last.pre.R = One /\ ~QLt(last.u[1], last.post.Use))
        => last.post.R = One

\* A failed release at a recovered site, the draw equal to Use.
C2_Witness ==
    /\ last.kind = "event"
    /\ last.pre.R = One
    /\ last.u[1] = last.post.Use
    /\ last.post.R = One

\* C3: after a release no later event releases until a recovery check has
\* succeeded, and an event at the simulated time of the release never releases.
C3_NoReleaseUntilRecovery ==
    (last.kind = "event" /\ last.released /\ last.prevRel # -1)
        => (last.recSince /\ last.prevRel # last.time)

\* The part of C3 the mechanism keeps: a release after a release follows a
\* successful recovery check.
C3_RecoveryFirst ==
    (last.kind = "event" /\ last.released /\ last.prevRel # -1) => last.recSince

\* C3 for a site with one NetCon.
C3_OneNetCon ==
    (last.kind = "event" /\ last.released /\ last.prevRel # -1
        /\ Cardinality(last.cons) = 1)
        => (last.recSince /\ last.prevRel # last.time)

\* C4: R of a stochastic instance is 0 or 1 in every state.
C4_TwoValuedR == \A s \in active : syn[s].R \in {Zero, One}

\* An unrecovered site after a release and an integration step.
C4_Witness ==
    /\ syn[1].R = Zero
    /\ last.kind = "event"
    /\ last.time < t

C6_EnsembleAverage ==
    lastTM.kind = "event" =>
        /\ lastEns.Rdec = lastTM.pre.R
        /\ lastEns.incA = QSub(lastTM.post.A_AMPA, lastTM.pre.A_AMPA)
        /\ lastEns.incN = QSub(lastTM.post.A_NMDA, lastTM.pre.A_NMDA)

\* C6 for instances with one NetCon.
C6_OneNetCon ==
    (lastTM.kind = "event" /\ Cardinality(lastTM.cons) = 1) =>
        /\ lastEns.Rdec = lastTM.pre.R
        /\ lastEns.incA = QSub(lastTM.post.A_AMPA, lastTM.pre.A_AMPA)
        /\ lastEns.incN = QSub(lastTM.post.A_NMDA, lastTM.pre.A_NMDA)

\* C7: the first event of a freshly initialised instance, at whatever time,
\* releases exactly when its draw is below U1.
C7_FirstRelease ==
    (last.kind = "event" /\ Len(hist[last.s].rel) = 1) =>
        /\ Len(last.u) = 1
        /\ last.released <=> QLt(last.u[1], par.U1)

\* A first event after an integration step, with U1 < 1.
C7_Witness ==
    /\ last.kind = "event"
    /\ Len(hist[last.s].rel) = 1
    /\ last.time > 0
    /\ last.released
    /\ par.U1 # One

\* C8: every release adds weight*factor_AMPA to A_AMPA and B_AMPA and
\* weight*factor_NMDA to A_NMDA and B_NMDA, whatever Use, R and the history.
C8_FixedResponse ==
    (last.kind = "event" /\ last.released) =>
        LET w == QInt(weight(last.k))
        IN  /\ QSub(last.post.A_AMPA, last.pre.A_AMPA) = QMul(w, factor_AMPA)
            /\ QSub(last.post.B_AMPA, last.pre.B_AMPA) = QMul(w, factor_AMPA)
            /\ QSub(last.post.A_NMDA, last.pre.A_NMDA) = QMul(w, factor_NMDA)
            /\ QSub(last.post.B_NMDA, last.pre.B_NMDA) = QMul(w, factor_NMDA)

\* A release that is not the first, with Use < 1 and conductance left over.
C8_Witness ==
    /\ last.kind = "event"
    /\ last.released
    /\ last.prevRel # -1
    /\ last.post.Use # One
    /\ last.pre.A_AMPA # Zero

\* C9: two instances with the same parameters, events and seed release and
\* fail at the same events, and have the same state whenever both have
\* received the same events.
C9_SameSeedSameBehaviour ==
    LET n == Min({Len(hist[1].rel), Len(hist[2].rel)})
    IN  /\ SubSeq(hist[1].rel, 1, n) = SubSeq(hist[2].rel, 1, n)
        /\ (pending[1] = <<>> /\ pending[2] = <<>>) =>
              /\ syn[1] = syn[2]
              /\ tsyn[1] = tsyn[2]
              /\ hist[1] = hist[2]

\* Both instances have released and failed, across an integration step.
C9_Witness ==
    /\ active = Syn
    /\ pending[1] = <<>> /\ pending[2] = <<>>
    /\ \E i, j \in 1..Len(hist[2].rel) : hist[2].rel[i] /\ ~hist[2].rel[j]
    /\ hist[1].rel = hist[2].rel
    /\ nstep > 0

\* C10: at every event of the deterministic mechanism Use is raised to
\* Use + U1*(1-Use), A = Use*R is computed with the raised Use, R is reduced by
\* A and each conductance state grows by A*weight*factor; the first event
\* releases the fraction U1.
C10_DeterministicEvent ==
    lastTM.kind = "event" =>
        LET pre == lastTM.pre
            post == lastTM.post
            use1 == QAdd(pre.Use, QMul(par.U1, QSub(One, pre.Use)))
            A == QMul(use1, pre.R)
            w == QInt(weight(lastTM.k))
        IN  /\ post.Use = use1
            /\ post.R = QSub(pre.R, A)
            /\ post.A_AMPA = QAdd(pre.A_AMPA, QMul(QMul(A, w), factor_AMPA))
            /\ post.B_AMPA = QAdd(pre.B_AMPA, QMul(QMul(A, w), factor_AMPA))
            /\ post.A_NMDA = QAdd(pre.A_NMDA, QMul(QMul(A, w), factor_NMDA))
            /\ post.B_NMDA = QAdd(pre.B_NMDA, QMul(QMul(A, w), factor_NMDA))
            /\ lastTM.n = 1 => A = par.U1

\* A later event, with Use already raised and part of the pool recovered.
C10_Witness ==
    /\ lastTM.kind = "event"
    /\ lastTM.n > 1
    /\ lastTM.time > 0
    /\ lastTM.pre.Use \notin {Zero, One}
    /\ lastTM.pre.R \notin {Zero, One}

\* C17: every event consumes one draw when the site is recovered on arrival,
\* one draw when it is unrecovered on arrival and stays so, and two draws when
\* it is unrecovered on arrival and recovers; never none, never more than two.
C17_DrawsPerEvent ==
    last.kind = "event" =>
        LET n == rngpos[RngOf(last.s)] - last.pos0
        IN  /\ n = Len(last.u)
            /\ n \in {1, 2}
            /\ last.pre.R = One => n = 1
            /\ (last.pre.R = Zero /\ ~last.recovered) => n = 1
            /\ (last.pre.R = Zero /\ last.recovered) => n = 2

\* An event that recovered the site and failed to release, after one that
\* left it unrecovered: two draws after one.
C17_Witness ==
    /\ last.kind = "event"
    /\ last.pre.R = Zero
    /\ last.recovered
    /\ ~last.released
    /\ rngpos[RngOf(last.s)] - last.pos0 = 2
    /\ last.pos0 >= 2

\* C16: once the map has been built without error, mtype_map holds, for every
\* line of the file, the line's m-type with the line's integer.
C16_EveryLineMapped ==
    nb.pc = "done" =>
        \A i \in 1..Len(nb.records) :
            /\ nb.records[i].mtype \in DOMAIN nb.mtype_map
            /\ nb.mtype_map[nb.records[i].mtype] = nb.records[i].n

\* C16 for files whose last line ends with "\n".
C16_TerminatedFile ==
    (nb.pc = "done" /\ nb.file # <<>> /\ nb.file[Len(nb.file)] = "\n") =>
        \A i \in 1..Len(nb.records) :
            /\ nb.records[i].mtype \in DOMAIN nb.mtype_map
            /\ nb.mtype_map[nb.records[i].mtype] = nb.records[i].n

\* A terminated file of two lines, one with a two-digit integer, is mapped.
C16_TerminatedWitness ==
    /\ nb.pc = "done"
    /\ nb.file # <<>> /\ nb.file[Len(nb.file)] = "\n"
    /\ Len(nb.records) = 2
    /\ nb.records[1].n = 10
    /\ DOMAIN nb.mtype_map = {nb.records[i].mtype : i \in 1..2}

\* Whether the submission example has stopped, at its end or by an exception.
Finished == sub.pc \in {"end", "raised"}

\* Whether the example has printed the line.
Printed(line) == \E i \in 1..Len(sub.printed) : sub.printed[i] = line

\* C14: the example POSTs a JSON body with exactly the keys submission_token
\* and answer, answer being the JSON text of the answers; having received a
\* response it prints grade.value of the body when the status is OK and the
\* body's message for every other status.
C14_SubmissionExchange ==
    (sub.pc \in {"if", "end", "raised"} /\ sub.response.bound) =>
        /\ sub.request.method = "POST"
        /\ sub.request.url = ENDPOINT
        /\ DOMAIN sub.request.json = {"submission_token", "answer"}
        /\ sub.request.json.submission_token = sub.SUBMISSION_KEY
        /\ json_loads(sub.request.json.answer) = sub.ANSWERS
        /\ Finished =>
             /\ sub.exc = "none"
             /\ IF sub.response.status_code = 200
                THEN /\ Printed(<<"GRADE: {}", sub.response.body.grade.value>>)
                     /\ \A m \in {"Invalid token", "Internal error"} : ~Printed(<<m>>)
                ELSE sub.printed = << <<sub.response.body.message>> >>

\* A graded submission of a str with a character JSON escapes.
C14_Witness ==
    /\ sub.pc = "end"
    /\ sub.response.status_code = 200
    /\ sub.ANSWERS.type = "str"
    /\ Len(sub.ANSWERS.s) = 2
    /\ sub.ANSWERS.s[1] = "\""
    /\ Printed(<<"GRADE: {}", "10">>)

\* C15: a network exception raised by the POST request is caught by the
\* handler around it: 'Error sending the answers' is printed and the
\* exception does not leave the example.
C15_NetworkExceptionCaught ==
    (Finished /\ sub.raised \in NetworkExceptions) =>
        /\ Printed(<<"Error sending the answers">>)
        /\ sub.exc # sub.raised

\* What the handler does catch: an exception of the request that is a
\* ValueError.
C15_ValueErrorCaught ==
    (Finished /\ sub.raised # "none" /\ IsSubclass(sub.raised, "ValueError")) =>
        /\ Printed(<<"Error sending the answers">>)
        /\ sub.exc # sub.raised

\* C18: once the example has reported that sending failed it finishes without
\* reading a response: it does not evaluate the response it never received,
\* and prints neither a grade nor a message.
C18_FailureEndsExample ==
    (Finished /\ Printed(<<"Error sending the answers">>)) =>
        /\ ~sub.read
        /\ sub.exc = "none"
        /\ sub.printed = << <<"Error sending the answers">> >>

\* The part of C18 that holds: after the report nothing more is printed.
C18_NothingPrintedAfterReport ==
    Printed(<<"Error sending the answers">>) =>
        sub.printed = << <<"Error sending the answers">> >>

\* C11: in the deterministic mechanism 0 <= R <= 1 in every state, and the
\* fraction an event releases is at most the R it found.
C11_RFraction ==
    /\ QLe(Zero, tm.R)
    /\ QLe(tm.R, One)
    /\ lastTM.kind = "event" =>
         LET A == QSub(lastTM.pre.R, lastTM.post.R)
         IN  /\ QLe(Zero, A)
             /\ QLe(A, lastTM.pre.R)

\* A later event that found a partly recovered pool and released part of it,
\* followed by recovery.
C11_Witness ==
    /\ lastTM.kind = "event"
    /\ lastTM.n > 1
    /\ QLt(Zero, lastTM.post.R)
    /\ QLt(lastTM.post.R, lastTM.pre.R)
    /\ QLt(lastTM.pre.R, One)
    /\ QLt(lastTM.post.R, tm.R)

\* C12: in both mechanisms 0 <= Use <= 1 in every state, and U1 <= Use
\* immediately after every event.
C12_UseProbability ==
    /\ QLe(Zero, tm.Use) /\ QLe(tm.Use, One)
    /\ QLe(Zero, syn[1].Use) /\ QLe(syn[1].Use, One)
    /\ lastTM.kind = "event" => QLe(par.U1, lastTM.post.Use)
    /\ last.kind = "event" => QLe(par.U1, last.post.Use)

\* A later event that found Use partly decayed and raised it above U1 < 1,
\* followed by decay below U1, in both mechanisms.
C12_Witness ==
    /\ lastTM.kind = "event" /\ last.kind = "event"
    /\ lastTM.n > 1
    /\ QLt(Zero, lastTM.pre.Use) /\ QLt(Zero, last.pre.Use)
    /\ QLt(par.U1, lastTM.post.Use) /\ QLt(par.U1, last.post.Use)
    /\ QLt(lastTM.post.Use, One) /\ QLt(last.post.Use, One)
    /\ QLt(tm.Use, par.U1) /\ QLt(syn[1].Use, par.U1)

\* Whether the state has no conductance left of any earlier release.
Silent(st) ==
    /\ st.A_AMPA = Zero /\ st.B_AMPA = Zero
    /\ st.A_NMDA = Zero /\ st.B_NMDA = Zero

\* The conductances of state st follow the dual-exponential response to one
\* pulse of weight w at time t0: they equal gmax*w*dual_exp, never exceed
\* gmax*w, and equal gmax*w exactly tp after the pulse.
SinglePulse(st, w, t0) ==
    LET peakA == QMul(gmax_AMPA, QInt(w))
        peakN == QMul(gmax_NMDA, QInt(w))
    IN  /\ g_AMPA(st) = QMul(peakA, dual_exp(t, tau_r_AMPA, tau_d_AMPA, t0))
        /\ g_NMDA(st, One) = QMul(peakN, dual_exp(t, tau_r_NMDA, tau_d_NMDA, t0))
        /\ QLe(g_AMPA(st), peakA)
        /\ QLe(g_NMDA(st, One), peakN)
        /\ g_AMPA(st) = peakA <=> t - t0 = tp(tau_r_AMPA, tau_d_AMPA)
        /\ g_NMDA(st, One) = peakN <=> t - t0 = tp(tau_r_NMDA, tau_d_NMDA)

\* C13: after a single increment of weight*factor on a silent synapse, in
\* either mechanism, g_AMPA and (with the Mg gate at 1) g_NMDA follow the
\* closed-form dual_exp and peak at gmax*weight, tp after the event.
C13_PeakNormalisation ==
    /\ (last.kind = "event" /\ last.released /\ Silent(last.pre)) =>
          SinglePulse(syn[last.s], weight(last.k), last.time)
    /\ (/\ lastTM.kind = "event"
        /\ Silent(lastTM.pre)
        /\ QSub(lastTM.post.A_AMPA, lastTM.pre.A_AMPA)
             = QMul(QInt(weight(lastTM.k)), factor_AMPA)
        /\ QSub(lastTM.post.A_NMDA, lastTM.pre.A_NMDA)
             = QMul(QInt(weight(lastTM.k)), factor_NMDA)) =>
          SinglePulse(tm, weight(lastTM.k), lastTM.time)

\* Both mechanisms at their peak, tp after a single pulse of weight 2 that
\* came after an integration step.
C13_Witness ==
    /\ last.kind = "event" /\ last.released /\ Silent(last.pre)
    /\ lastTM.kind = "event" /\ Silent(lastTM.pre) /\ par.U1 = One
    /\ last.k = 2
    /\ last.time > 0
    /\ t - last.time = tp(tau_r_AMPA, tau_d_AMPA)
    /\ g_AMPA(syn[1]) = QMul(gmax_AMPA, QInt(2))
    /\ g_AMPA(tm) = QMul(gmax_AMPA, QInt(2))
    /\ g_NMDA(tm, One) = QMul(gmax_NMDA, QInt(2))

====
